---- MODULE Spec2Model ----
(***************************************************************************)
(* Model of univ_eloued_scraper.py: the date resolver (parse_date_string), *)
(* event-date extraction (extract_event_date), link discovery              *)
(* (extract_links), pagination lookup (find_next_page_url) and the crawl   *)
(* loop (scrape_activities).                                               *)
(*                                                                         *)
(* Representation of the data the program handles:                         *)
(*  - a character string that the code inspects character by character     *)
(*    (URLs, class names, anchor texts) is a sequence of one-character     *)
(*    strings; the scheme "https://" of a URL is one element, and a        *)
(*    character outside ASCII is written by its name ("rarr" is the        *)
(*    right arrow, "teh" the Arabic letter teh);                           *)
(*  - a text that is handed to the date resolver is a sequence of tokens:  *)
(*    a whitespace run (form "ws"), one of three fixed words (see Word,    *)
(*    ArWord, Zed) or a date phrase [form, y, m, d] written in one of the  *)
(*    notations the resolver knows (see Forms); a token with glued = TRUE  *)
(*    follows the token before it directly, any other token is separated   *)
(*    from it by one whitespace character (a blank, a tab or a line end:   *)
(*    the code treats the three alike);                                    *)
(*  - Python's None is the one-element sequence None.                      *)
(***************************************************************************)
EXTENDS Integers, Sequences, FiniteSets, TLC

VARIABLES
    web,            \* the site: URL -> page served by fetch_page
    max_pages,      \* MAX_PAGES (UNBOUNDED stands for None)
    pc,             \* position of scrape_activities
    current_url,    \* scrape_activities: current_url
    page_num,       \* scrape_activities: page_num
    all_data,       \* scrape_activities: all_data
    page_html,      \* scrape_activities: page_html
    article_links,  \* scrape_activities: article_links
    idx,            \* scrape_activities: idx of the article loop
    csv_rows,       \* the records a CSV reader finds in OUTPUT_FILE
    csv_error,      \* the write has raised ("Error saving CSV")
    log,            \* history of fetch_page / find_next_page_url calls
    arg,            \* argument of the pure function under study
    ret,            \* its return value
    fpc             \* "call" before the function ran, "ret" after

vars == <<web, max_pages, pc, current_url, page_num, all_data, page_html,
          article_links, idx, csv_rows, csv_error, log, arg, ret, fpc>>

crawlVars == <<web, max_pages, pc, current_url, page_num, all_data, page_html,
               article_links, idx, csv_rows, csv_error, log>>

funVars == <<arg, ret, fpc>>

\* ------------------------------------------------------------------------
\* Bounds of the model
\* ------------------------------------------------------------------------
MaxBlocks == 2      \* containers on a listing page (link discovery)
MaxAnchors == 2     \* anchors inside one container
MaxNavAnchors == 3  \* anchors on a page (pagination lookup)
MaxTokens == 2      \* tokens of a text given to the date resolver
MaxNodes == 3       \* elements of an article page (event-date extraction)
MaxCeiling == 3     \* largest finite MAX_PAGES
MaxPageNum == 3     \* cap on page_num when MAX_PAGES is None

\* MAX_PAGES = None
UNBOUNDED == -1

\* ------------------------------------------------------------------------
\* Strings
\* ------------------------------------------------------------------------
None == <<"None">>

UpperCase == <<"A","B","C","D","E","F","G","H","I","J","K","L","M",
               "N","O","P","Q","R","S","T","U","V","W","X","Y","Z">>
LowerCase == <<"a","b","c","d","e","f","g","h","i","j","k","l","m",
               "n","o","p","q","r","s","t","u","v","w","x","y","z">>

\* str.lower on one character
LowerChar(c) ==
    IF \E i \in 1..26 : UpperCase[i] = c
    THEN LowerCase[CHOOSE i \in 1..26 : UpperCase[i] = c]
    ELSE c

\* str.lower
Lower(s) == [i \in 1..Len(s) |-> LowerChar(s[i])]

\* sub in s
Contains(s, sub) ==
    \E i \in 1..(Len(s) - Len(sub) + 1) : SubSeq(s, i, i + Len(sub) - 1) = sub

\* s.endswith(suffix)
EndsWith(s, suffix) ==
    /\ Len(suffix) <= Len(s)
    /\ SubSeq(s, Len(s) - Len(suffix) + 1, Len(s)) = suffix

\* s.rstrip('/')
RECURSIVE RStripSlash(_)
RStripSlash(s) ==
    IF Len(s) > 0 /\ s[Len(s)] = "/"
    THEN RStripSlash(SubSeq(s, 1, Len(s) - 1))
    ELSE s

\* Python truthiness of a str-or-None value
Truthy(s) == s # None /\ s # <<>>

\* ------------------------------------------------------------------------
\* URLs
\* ------------------------------------------------------------------------
\* urlparse(url).netloc: what follows the scheme, up to the first "/"
RECURSIVE UpToSlash(_)
UpToSlash(s) ==
    IF s = <<>> \/ Head(s) = "/" THEN <<>> ELSE <<Head(s)>> \o UpToSlash(Tail(s))

urlparse_netloc(url) ==
    IF Len(url) > 0 /\ Head(url) = "https://" THEN UpToSlash(Tail(url)) ELSE <<>>

\* urljoin(base, href) for the two kinds of href of the model: an empty
\* href yields the base, an absolute href yields itself
urljoin(base, href) == IF href = <<>> THEN base ELSE href

BASE_URL == <<"https://", "h", "/", "a", "/">>
L1NoSlash == <<"https://", "h", "/", "a">>
L2 == <<"https://", "h", "/", "b", "/">>
L3 == <<"https://", "h", "/", "c", "/">>
A1 == <<"https://", "h", "/", "x">>
A2 == <<"https://", "h", "/", "y">>
A3 == <<"https://", "h", "/", "z">>
SubA == <<"https://", "s", "h", "/", "x">>
ExtA == <<"https://", "e", "/", "x">>

\* ------------------------------------------------------------------------
\* Listing view of a page: containers ("article", a heading, or any other
\* element) in document order, each with the anchors it contains
\* ------------------------------------------------------------------------
Anchor(hasHref, href, cls, text) ==
    [has_href |-> hasHref, href |-> href, cls |-> cls, text |-> text]

Block(tag, anchors) == [tag |-> tag, anchors |-> anchors]

\* soup.find_all('a'): every anchor of the page in document order
RECURSIVE find_all_a(_)
find_all_a(html) ==
    IF html = <<>> THEN <<>> ELSE Head(html).anchors \o find_all_a(Tail(html))

\* element.find('a', href=True): index of the first anchor with an href
\* attribute, 0 when there is none
FirstHref(anchors) ==
    IF \E i \in 1..Len(anchors) : anchors[i].has_href
    THEN CHOOSE i \in 1..Len(anchors) :
            /\ anchors[i].has_href
            /\ \A j \in 1..(i - 1) : ~anchors[j].has_href
    ELSE 0

\* Append url unless seen (lines 176-178)
AddNew(links, url) ==
    IF \E i \in 1..Len(links) : links[i] = url THEN links ELSE Append(links, url)

\* Strategies 1 and 2: first link of every container of the given tags
RECURSIVE ContainerLinks(_, _, _, _)
ContainerLinks(html, tags, base_url, links) ==
    IF html = <<>> THEN links
    ELSE LET b == Head(html)
             k == FirstHref(b.anchors)
             next == IF b.tag \in tags /\ k # 0
                     THEN AddNew(links, urljoin(base_url, b.anchors[k].href))
                     ELSE links
         IN ContainerLinks(Tail(html), tags, base_url, next)

\* Strategy 3: every same-domain link that is not the page itself
RECURSIVE InternalLinks(_, _, _)
InternalLinks(anchors, base_url, links) ==
    IF anchors = <<>> THEN links
    ELSE LET a == Head(anchors)
             url == urljoin(base_url, a.href)
             domain == urlparse_netloc(base_url)
             keep == /\ a.has_href
                     /\ EndsWith(urlparse_netloc(url), domain)
                     /\ ~(\E i \in 1..Len(links) : links[i] = url)
                     /\ RStripSlash(url) # RStripSlash(base_url)
         IN InternalLinks(Tail(anchors), base_url,
                          IF keep THEN Append(links, url) ELSE links)

Headings == {"h1", "h2", "h3", "h4"}

extract_links(html, base_url) ==
    LET s1 == ContainerLinks(html, {"article"}, base_url, <<>>)
        s2 == ContainerLinks(html, Headings, base_url, s1)
    IN InternalLinks(find_all_a(html), base_url, s2)

\* ------------------------------------------------------------------------
\* Pagination lookup
\* ------------------------------------------------------------------------
NextClasses == {<<"n","e","x","t">>,
                <<"n","e","x","t","-","p","a","g","e">>,
                <<"p","a","g","i","n","a","t","i","o","n","-","n","e","x","t">>}

\* a.get('href') is truthy
HrefTruthy(a) == a.has_href /\ a.href # <<>>

\* 'next' in text or the arrow in text, text lower-cased
TextSaysNext(a) ==
    \/ Contains(Lower(a.text), <<"n","e","x","t">>)
    \/ Contains(Lower(a.text), <<"rarr">>)

\* index of the first TRUE of a sequence of booleans, 0 when there is none:
\* what find and re.search return among the elements that pass their test
FirstTrue(b) ==
    IF \E i \in 1..Len(b) : b[i]
    THEN CHOOSE i \in 1..Len(b) : b[i] /\ \A j \in 1..(i - 1) : ~b[j]
    ELSE 0

\* the lookup with the text scan done before the class-name lookup
find_next_page_url_text_first(html, cur) ==
    LET as == find_all_a(html)
        nb == FirstTrue([i \in 1..Len(as) |-> as[i].cls \in NextClasses])
        tl == FirstTrue([i \in 1..Len(as) |->
                            HrefTruthy(as[i]) /\ TextSaysNext(as[i])])
    IN IF tl # 0 THEN urljoin(cur, as[tl].href)
       ELSE IF nb # 0 /\ HrefTruthy(as[nb]) THEN urljoin(cur, as[nb].href)
       ELSE None

find_next_page_url(html, cur) ==
    LET as == find_all_a(html)
        nb == FirstTrue([i \in 1..Len(as) |-> as[i].cls \in NextClasses])
        tl == FirstTrue([i \in 1..Len(as) |->
                            HrefTruthy(as[i]) /\ TextSaysNext(as[i])])
    IN IF nb # 0 /\ HrefTruthy(as[nb]) THEN urljoin(cur, as[nb].href)
       ELSE IF tl # 0 THEN urljoin(cur, as[tl].href)
       ELSE None

\* ------------------------------------------------------------------------
\* Texts and dates
\* ------------------------------------------------------------------------
\* Notations of a date phrase, with the text each stands for:
\*   "iso"    2024-02-29              "isoz"  2024-02-29T00:00:00Z
\*   "Bdy"    February 29, 2024       "bdy"   Feb 29, 2024
\*   "dBy"    29 February 2024        "dby"   29 Feb 2024
\*   "slash"  29/02/2024              "dash"  29-02-2024
\*   "ar"     <Arabic month name> 29, 2024
\*   "wdy"    Foo 29, 2024         (a word that is no month name)
Forms == {"iso", "isoz", "Bdy", "bdy", "dBy", "dby", "slash", "dash", "ar", "wdy"}

Tok(form, y, m, d) ==
    [form |-> form, y |-> y, m |-> m, d |-> d, glued |-> FALSE]

\* the token written directly after the token before it
Glued(t) == [t EXCEPT !.glued = TRUE]

\* the token separated from the token before it
Unglued(t) == [t EXCEPT !.glued = FALSE]

\* a run of whitespace: a tab followed by a line end
WS == Tok("ws", 0, 0, 0)

\* the word "hello": letters of [A-Za-z] only
Word == Tok("word", 0, 0, 0)

\* the Arabic word kalima (kaf, lam, meem, teh marbuta): no letter of
\* [A-Za-z], no digit, no whitespace, no month name
ArWord == Tok("arword", 0, 0, 0)

\* the letter "Z"
Zed == Tok("zed", 0, 0, 0)

\* None as the value of a text-or-None expression
NoneText == <<Tok("None", 0, 0, 0)>>

\* the outcome of a call that raises instead of returning a datetime
Raised == Tok("Raised", 0, 0, 0)

IsLeap(y) == (y % 4 = 0 /\ y % 100 # 0) \/ y % 400 = 0

DaysInMonth(y, m) ==
    IF m = 2 THEN (IF IsLeap(y) THEN 29 ELSE 28)
    ELSE IF m \in {4, 6, 9, 11} THEN 30 ELSE 31

\* the day/month/year combinations datetime accepts
IsRealDate(y, m, d) ==
    /\ y \in 1..9999
    /\ m \in 1..12
    /\ d \in 1..DaysInMonth(y, m)

\* dt.strftime('%Y-%m-%d')
strftime(t) == <<Tok("iso", t.y, t.m, t.d)>>

\* str.strip
RECURSIVE LStrip(_)
LStrip(s) ==
    IF s # <<>> /\ Head(s).form = "ws" THEN LStrip(Tail(s)) ELSE s

RECURSIVE RStrip(_)
RStrip(s) ==
    IF s # <<>> /\ s[Len(s)].form = "ws"
    THEN RStrip(SubSeq(s, 1, Len(s) - 1))
    ELSE s

Strip(s) == RStrip(LStrip(s))

NotWS(t) == t.form # "ws"

\* every whitespace run becomes one space and the ends are stripped: the
\* whitespace tokens go, and a token that followed one is separated from
\* the token before it
clean_text(text) ==
    IF text = NoneText \/ text = <<>> THEN <<>>
    ELSE SelectSeq([i \in 1..Len(text) |->
                      [text[i] EXCEPT !.glued =
                          @ /\ i > 1 /\ text[i - 1].form # "ws"]],
                   NotWS)

\* datetime.fromisoformat(clean) succeeds (lines 39-40): a date or a date
\* and time in ISO notation; every "Z" was replaced by "+00:00", which
\* after a date reads as the time 00:00 and after that as the UTC offset
FromIsoOk(s) ==
    /\ \/ Len(s) = 1 /\ s[1].form \in {"iso", "isoz"}
       \/ Len(s) = 2 /\ s[1].form = "iso" /\ s[2] = Glued(Zed)
       \/ /\ Len(s) = 3 /\ s[1].form = "iso" /\ s[2] = Glued(Zed)
          /\ s[3].form = "zed"
    /\ IsRealDate(s[1].y, s[1].m, s[1].d)

\* datetime.fromisoformat(clean) (line 40): the datetime, or ValueError
fromisoformat(s) == IF FromIsoOk(s) THEN s[1] ELSE Raised

\* the notation each entry of formats (line 46) accepts
formats == <<"Bdy", "bdy", "dBy", "dby", "iso", "slash", "dash">>

\* datetime.strptime(s, fmt) succeeds
StrptimeOk(s, fmt) ==
    /\ Len(s) = 1
    /\ s[1].form = fmt
    /\ IsRealDate(s[1].y, s[1].m, s[1].d)

\* datetime.strptime(s, fmt) (lines 49, 79, 83): the datetime, or ValueError
strptime(s, fmt) == IF StrptimeOk(s, fmt) THEN s[1] ELSE Raised

\* datetime(year, month, day) (line 70): the datetime, or ValueError when
\* the combination is no calendar date
datetime(y, m, d) ==
    IF IsRealDate(y, m, d) THEN Tok("iso", y, m, d) ELSE Raised

\* re.search of the Arabic pattern (line 63): leftmost match, 0 when none
ArabicSearch(s) ==
    FirstTrue([i \in 1..Len(s) |-> s[i].form = "ar"])

\* re.search of the English pattern (lines 76, 131): leftmost match
LatinSearch(s) ==
    FirstTrue([i \in 1..Len(s) |-> s[i].form \in {"Bdy", "bdy", "wdy"}])

\* Arabic strategy (lines 63-73), variant that clamps the day to the month
ArabicStrategyClamped(s) ==
    LET k == ArabicSearch(s)
    IN IF k # 0 /\ s[k].m \in 1..12
       THEN strftime(Tok("iso", s[k].y, s[k].m,
                         IF s[k].d > DaysInMonth(s[k].y, s[k].m)
                         THEN DaysInMonth(s[k].y, s[k].m) ELSE s[k].d))
       ELSE NoneText

\* Arabic strategy (lines 63-73): the exception of line 70 is caught by
\* lines 72-73
ArabicStrategy(s) ==
    LET k == ArabicSearch(s)
    IN IF k # 0 /\ datetime(s[k].y, s[k].m, s[k].d) # Raised
       THEN strftime(datetime(s[k].y, s[k].m, s[k].d))
       ELSE NoneText

\* the token ends in a letter of [A-Za-z]
EndsInLetter(t) == t.form \in {"word", "zed", "isoz"}

\* the token is made of letters of [A-Za-z] only
AllLetters(t) == t.form \in {"word", "zed"}

\* the letters that [A-Za-z]+ of the English pattern takes in before the
\* k-th token: the tokens made of letters that it follows without
\* whitespace, and the "Z" that ends a date and time in ISO notation
RECURSIVE LettersBefore(_, _)
LettersBefore(s, k) ==
    IF k > 1 /\ s[k].glued /\ EndsInLetter(s[k - 1])
    THEN IF AllLetters(s[k - 1])
         THEN LettersBefore(s, k - 1) \o <<s[k - 1]>>
         ELSE <<Glued(Zed)>>
    ELSE <<>>

\* [A-Za-z]+ of the English pattern starts before the k-th token: the
\* token follows, without whitespace, a token that ends in a letter
GluedAfterLetter(s, k) == LettersBefore(s, k) # <<>>

\* m.group(0) of the English pattern for the match at the k-th token: the
\* phrase, after the letters it is glued to if there are any
LatinGroup(s, k) ==
    LET pre == LettersBefore(s, k)
    IN IF pre = <<>> THEN <<Unglued(s[k])>>
       ELSE <<Unglued(pre[1])>> \o Tail(pre) \o <<s[k]>>

\* English fallback (lines 76-86): each exception is caught by the except
\* clause of its try
LatinFallback(s) ==
    LET k == LatinSearch(s)
    IN IF k = 0 THEN NoneText
       ELSE IF strptime(LatinGroup(s, k), "Bdy") # Raised
            THEN strftime(strptime(LatinGroup(s, k), "Bdy"))
       ELSE IF strptime(LatinGroup(s, k), "bdy") # Raised
            THEN strftime(strptime(LatinGroup(s, k), "bdy"))
       ELSE NoneText

\* lines 30-88: every call that can raise sits in a try whose except clause
\* goes on to the next strategy
parse_date_string(raw) ==
    IF raw = NoneText \/ raw = <<>> THEN NoneText
    ELSE LET s == Strip(raw)
         IN IF fromisoformat(s) # Raised THEN strftime(fromisoformat(s))
            ELSE IF \E i \in 1..Len(formats) : strptime(s, formats[i]) # Raised
                 THEN LET f == CHOOSE n \in 1..Len(formats) :
                                 /\ strptime(s, formats[n]) # Raised
                                 /\ \A j \in 1..(n - 1) :
                                        strptime(s, formats[j]) = Raised
                      IN strftime(strptime(s, formats[f]))
            ELSE IF ArabicStrategy(s) # NoneText THEN ArabicStrategy(s)
            ELSE LatinFallback(s)

\* ------------------------------------------------------------------------
\* Article view of a page: its elements in document order
\* ------------------------------------------------------------------------
\* tag; cls, id: the class and id attributes (<<>> when missing);
\* key, name: for a meta element, which attribute names it ("property" or
\* "name") and that attribute's value; has_val, val: the datetime attribute
\* of a time element or the content attribute of a meta element; text: the
\* element's text; container: for a "p" element, the class of the element
\* that contains it (<<>> when that element has no class; the "p" is that
\* element's only content); gap: whitespace follows the element in the page
Node(tag, cls, id, key, name, hasVal, val, text, container) ==
    [tag |-> tag, cls |-> cls, id |-> id, key |-> key, name |-> name,
     has_val |-> hasVal, val |-> val, text |-> text, container |-> container,
     gap |-> TRUE]

\* the element with no whitespace between it and the element after it
Adjacent(n) == [n EXCEPT !.gap = FALSE]

TimeNode(hasVal, val, text) ==
    Node("time", <<>>, <<>>, "", "", hasVal, val, text, <<>>)
MetaNode(key, name, hasVal, val) ==
    Node("meta", <<>>, <<>>, key, name, hasVal, val, <<>>, <<>>)
Elem(tag, cls, id, text) ==
    Node(tag, cls, id, "", "", FALSE, <<>>, text, <<>>)
Para(container, text) ==
    Node("p", <<>>, <<>>, "", "", FALSE, <<>>, text, container)

\* soup.get_text() from the i-th element on: the texts of the elements
\* joined without a separator; sep tells that whitespace was passed since
\* the last text
RECURSIVE GetTextFrom(_, _, _)
GetTextFrom(soup, i, sep) ==
    IF i > Len(soup) THEN <<>>
    ELSE IF soup[i].text = <<>>
         THEN GetTextFrom(soup, i + 1, sep \/ soup[i].gap)
         ELSE <<[soup[i].text[1] EXCEPT !.glued = ~sep]>>
                \o Tail(soup[i].text)
                \o GetTextFrom(soup, i + 1, soup[i].gap)

\* soup.get_text()
get_text(soup) == GetTextFrom(soup, 1, TRUE)

\* tag.get(attribute) is truthy
ValTruthy(n) == n.has_val /\ n.val # <<>>

meta_names == <<"article:published_time", "published_time", "date",
                "dcterms.date", "dc.date", "pubdate", "publication_date",
                "datePublished">>

\* the alternatives of the pattern of line 121
DatePatterns == {<<"d","a","t","e">>, <<"t","i","m","e">>,
                 <<"p","o","s","t","-","d","a","t","e">>,
                 <<"e","n","t","r","y","-","d","a","t","e">>,
                 <<"teh","alef","reh","yeh","khah">>,
                 <<"noon","sheen","reh">>}

\* re.compile(..., re.I).search(value)
SuggestsDate(value) == \E p \in DatePatterns : Contains(Lower(value), p)

\* step 1 (lines 98-109): NoneText when it returns nothing
TimeStep(soup) ==
    LET k == FirstTrue([i \in 1..Len(soup) |-> soup[i].tag = "time"])
    IN IF k = 0 THEN NoneText
       ELSE IF ValTruthy(soup[k]) /\ parse_date_string(soup[k].val) # NoneText
            THEN parse_date_string(soup[k].val)
       ELSE parse_date_string(clean_text(soup[k].text))

\* soup.find('meta', attrs={'property': name}) or
\* soup.find('meta', attrs={'name': name}): index, 0 when none
FindMeta(soup, name) ==
    LET By(key) == FirstTrue([i \in 1..Len(soup) |->
                        /\ soup[i].tag = "meta"
                        /\ soup[i].key = key
                        /\ soup[i].name = name])
    IN IF By("property") # 0 THEN By("property") ELSE By("name")

\* step 2 (lines 112-118), from the i-th meta name on
RECURSIVE MetaStep(_, _)
MetaStep(soup, i) ==
    IF i > Len(meta_names) THEN NoneText
    ELSE LET k == FindMeta(soup, meta_names[i])
         IN IF k # 0 /\ ValTruthy(soup[k])
                /\ parse_date_string(soup[k].val) # NoneText
            THEN parse_date_string(soup[k].val)
            ELSE MetaStep(soup, i + 1)

\* step 3 (lines 121-126): soup.find_all(class_=pattern), in document
\* order; the element that contains a "p" is found by its class as well
\* and has the text of the "p"
RECURSIVE ClassStep(_)
ClassStep(soup) ==
    IF soup = <<>> THEN NoneText
    ELSE IF (SuggestsDate(Head(soup).cls) \/ SuggestsDate(Head(soup).container))
            /\ parse_date_string(clean_text(Head(soup).text)) # NoneText
         THEN parse_date_string(clean_text(Head(soup).text))
         ELSE ClassStep(Tail(soup))

\* step 4 (lines 129-143)
BodyStep(soup) ==
    LET body_text == clean_text(get_text(soup))
        m == LatinSearch(body_text)
        m2 == ArabicSearch(body_text)
    IN IF m # 0 /\ parse_date_string(LatinGroup(body_text, m)) # NoneText
       THEN parse_date_string(LatinGroup(body_text, m))
       ELSE IF m2 # 0 THEN parse_date_string(<<Unglued(body_text[m2])>>)
       ELSE NoneText

extract_event_date(soup) ==
    IF TimeStep(soup) # NoneText THEN TimeStep(soup)
    ELSE IF MetaStep(soup, 1) # NoneText THEN MetaStep(soup, 1)
    ELSE IF ClassStep(soup) # NoneText THEN ClassStep(soup)
    ELSE BodyStep(soup)

\* class names of the known content containers (lines 228-231); a "p"
\* element carries in container the class of the container it is in
content_selectors ==
    <<<<"e","n","t","r","y","-","c","o","n","t","e","n","t">>,
      <<"p","o","s","t","-","c","o","n","t","e","n","t">>,
      <<"c","o","n","t","e","n","t">>,
      <<"t","d","-","p","o","s","t","-","c","o","n","t","e","n","t">>,
      <<"a","r","t","i","c","l","e","-","b","o","d","y">>,
      <<"a","r","t","i","c","l","e","-","c","o","n","t","e","n","t">>,
      <<"m","a","i","n","-","c","o","n","t","e","n","t">>>>

\* text of the first element of the tag, NoneText when there is none
FirstText(soup, tag) ==
    LET k == FirstTrue([i \in 1..Len(soup) |-> soup[i].tag = tag])
    IN IF k = 0 THEN NoneText ELSE soup[k].text

\* lines 227-238, from the i-th selector on: soup.find takes the first
\* element of the class; a selector whose first element holds no paragraph
\* is given up for the next one
RECURSIVE ContainerParagraph(_, _)
ContainerParagraph(soup, i) ==
    IF i > Len(content_selectors) THEN <<>>
    ELSE LET k == FirstTrue([j \in 1..Len(soup) |->
                        \/ soup[j].cls = content_selectors[i]
                        \/ /\ soup[j].tag = "p"
                           /\ soup[j].container = content_selectors[i]])
         IN IF /\ k # 0
               /\ soup[k].tag = "p"
               /\ soup[k].container = content_selectors[i]
            THEN clean_text(soup[k].text)
            ELSE ContainerParagraph(soup, i + 1)

extract_article_data(soup, article_url) ==
    LET title == IF FirstText(soup, "h1") # NoneText
                 THEN clean_text(FirstText(soup, "h1"))
                 ELSE clean_text(FirstText(soup, "title"))
        d == FirstTrue([i \in 1..Len(soup) |->
                        /\ soup[i].tag = "meta"
                        /\ soup[i].key = "name"
                        /\ soup[i].name = "description"])
        summary == IF d # 0 /\ ValTruthy(soup[d]) /\ clean_text(soup[d].val) # <<>>
                   THEN clean_text(soup[d].val)
                   ELSE IF ContainerParagraph(soup, 1) # <<>>
                        THEN ContainerParagraph(soup, 1)
                   ELSE clean_text(FirstText(soup, "p"))
        event_date == extract_event_date(soup)
    IN [Title |-> title,
        Date |-> IF event_date # NoneText THEN event_date ELSE <<>>,
        Description |-> summary,
        Link |-> article_url]


\* ------------------------------------------------------------------------
\* The site
\* ------------------------------------------------------------------------
\* A page as fetch_page returns it: exists is FALSE when the server answers
\* with an error status; listing and article are the two views of its HTML
Page(exists, listing, article) ==
    [exists |-> exists, listing |-> listing, article |-> article]

NoPage == Page(FALSE, <<>>, <<>>)

AllURLs == {BASE_URL, L1NoSlash, L2, L3, A1, A2, A3, SubA, ExtA}

DateA == Tok("iso", 2024, 5, 1)
DateB == Tok("Bdy", 2024, 4, 30)

TxtNext == <<"N","e","x","t">>
TxtTwo == <<"2">>
TxtArrow == <<"rarr">>
ClsNext == <<"n","e","x","t">>
ClsDate == <<"P","o","s","t","-","D","a","t","e">>
ClsBody == <<"b","o","d","y">>
IdTime == <<"p","u","b","t","i","m","e">>
IdMain == <<"m","a","i","n">>

Link(href) == Anchor(TRUE, href, <<>>, TxtTwo)
NextByClass(href) == Anchor(TRUE, href, ClsNext, TxtTwo)
NextByText(href) == Anchor(TRUE, href, <<>>, TxtNext)

ArticleDoc(t) ==
    <<Elem("h1", <<>>, <<>>, <<Word>>), TimeNode(TRUE, <<t>>, <<Word>>)>>

\* a page with a title and no date: the first element of class
\* entry-content holds no paragraph, the one of class post-content does
PlainDoc ==
    <<Elem("title", <<>>, <<>>, <<Word>>),
      Elem("div", content_selectors[1], <<>>, <<Word>>),
      Para(content_selectors[1], <<Word, Zed>>),
      Para(content_selectors[2], <<ArWord>>)>>

Articles ==
    [u \in AllURLs |->
        IF u = A1 THEN Page(TRUE, <<>>, ArticleDoc(DateA))
        ELSE IF u = A2 THEN Page(TRUE, <<>>, ArticleDoc(DateB))
        ELSE IF u = A3 THEN Page(TRUE, <<>>, PlainDoc)
        ELSE NoPage]

\* one listing page with three article containers and no next link
SiteThree ==
    [Articles EXCEPT ![BASE_URL] =
        Page(TRUE, <<Block("article", <<Link(A1)>>),
                     Block("article", <<Link(A2)>>),
                     Block("article", <<Link(A3)>>)>>, PlainDoc)]

\* two listing pages, the second one's next link points back to the first
SiteCycle ==
    [Articles EXCEPT
        ![BASE_URL] = Page(TRUE, <<Block("article", <<Link(A1)>>),
                                   Block("div", <<NextByClass(L2)>>)>>, PlainDoc),
        ![L2] = Page(TRUE, <<Block("h2", <<Link(A2)>>),
                             Block("div", <<NextByText(BASE_URL)>>)>>, PlainDoc)]

\* a listing page whose next link points to itself
SiteSelf ==
    [Articles EXCEPT
        ![BASE_URL] = Page(TRUE, <<Block("article", <<Link(A1)>>),
                                   Block("div", <<NextByClass(<<>>)>>),
                                   Block("div", <<NextByText(BASE_URL)>>)>>,
                           PlainDoc)]

\* three listing pages in a row, the last without a next link
SiteChain ==
    [Articles EXCEPT
        ![BASE_URL] = Page(TRUE, <<Block("article", <<Link(A1), Link(ExtA)>>),
                                   Block("div", <<NextByText(L2)>>)>>, PlainDoc),
        ![L2] = Page(TRUE, <<Block("div", <<Link(A2), Link(SubA)>>),
                             Block("div", <<NextByClass(L3)>>)>>, PlainDoc),
        ![L3] = Page(TRUE, <<Block("h3", <<Link(A3)>>)>>, PlainDoc)]

Sites == {SiteThree, SiteCycle, SiteSelf, SiteChain}

\* ------------------------------------------------------------------------
\* scrape_activities
\* ------------------------------------------------------------------------
Entry(kind, url, ok) == [kind |-> kind, url |-> url, ok |-> ok]

\* the condition of the while loop (line 293) with <= for <
LoopCondOffByOne ==
    /\ Truthy(current_url)
    /\ (max_pages = UNBOUNDED \/ page_num <= max_pages)

\* the condition of the while loop (line 293)
LoopCond ==
    /\ Truthy(current_url)
    /\ (max_pages = UNBOUNDED \/ page_num < max_pages)

\* page_num is capped when nothing else bounds it
WithinCap == max_pages = UNBOUNDED => page_num < MaxPageNum

\* lines 293-305: the listing page is fetched and its links extracted
FetchListingOk ==
    /\ pc = "loop"
    /\ LoopCond
    /\ WithinCap
    /\ web[current_url].exists
    /\ page_num' = page_num + 1
    /\ page_html' = web[current_url]
    /\ article_links' = extract_links(web[current_url].listing, current_url)
    /\ idx' = 1
    /\ pc' = "articles"
    /\ log' = Append(log, Entry("listing", current_url, TRUE))
    /\ UNCHANGED <<web, max_pages, current_url, all_data, csv_rows, csv_error>>
    /\ UNCHANGED funVars

\* the fetch of the listing page fails and the loop goes on with the same URL
FetchListingFailRetry ==
    /\ pc = "loop"
    /\ LoopCond
    /\ WithinCap
    /\ page_num' = page_num + 1
    /\ pc' = "loop"
    /\ log' = Append(log, Entry("listing", current_url, FALSE))
    /\ UNCHANGED <<web, max_pages, current_url, all_data, page_html,
                   article_links, idx, csv_rows, csv_error>>
    /\ UNCHANGED funVars

\* lines 293-301, 331-333: the fetch of the listing page raises, break
FetchListingFail ==
    /\ pc = "loop"
    /\ LoopCond
    /\ WithinCap
    /\ page_num' = page_num + 1
    /\ pc' = "save"
    /\ log' = Append(log, Entry("listing", current_url, FALSE))
    /\ UNCHANGED <<web, max_pages, current_url, all_data, page_html,
                   article_links, idx, csv_rows, csv_error>>
    /\ UNCHANGED funVars

\* line 293: the loop condition is false
LoopExit ==
    /\ pc = "loop"
    /\ ~LoopCond
    /\ pc' = "save"
    /\ UNCHANGED <<web, max_pages, current_url, page_num, all_data, page_html,
                   article_links, idx, csv_rows, csv_error, log>>
    /\ UNCHANGED funVars

\* the article's record is put in front of all_data
FetchArticleOkPrepend ==
    /\ pc = "articles"
    /\ idx <= Len(article_links)
    /\ web[article_links[idx]].exists
    /\ all_data' = <<extract_article_data(web[article_links[idx]].article,
                                          article_links[idx])>> \o all_data
    /\ idx' = idx + 1
    /\ log' = Append(log, Entry("article", article_links[idx], TRUE))
    /\ UNCHANGED <<web, max_pages, pc, current_url, page_num, page_html,
                   article_links, csv_rows, csv_error>>
    /\ UNCHANGED funVars

\* lines 313-319: one article is fetched and its record appended
FetchArticleOk ==
    /\ pc = "articles"
    /\ idx <= Len(article_links)
    /\ web[article_links[idx]].exists
    /\ all_data' = Append(all_data,
                          extract_article_data(web[article_links[idx]].article,
                                               article_links[idx]))
    /\ idx' = idx + 1
    /\ log' = Append(log, Entry("article", article_links[idx], TRUE))
    /\ UNCHANGED <<web, max_pages, pc, current_url, page_num, page_html,
                   article_links, csv_rows, csv_error>>
    /\ UNCHANGED funVars

\* the failure of an article ends the article loop of the page
FetchArticleFailBreak ==
    /\ pc = "articles"
    /\ idx <= Len(article_links)
    /\ idx' = Len(article_links) + 1
    /\ log' = Append(log, Entry("article", article_links[idx], FALSE))
    /\ UNCHANGED <<web, max_pages, pc, current_url, page_num, all_data,
                   page_html, article_links, csv_rows, csv_error>>
    /\ UNCHANGED funVars

\* lines 313-316, 320-321: the fetch of one article raises, the loop goes on
FetchArticleFail ==
    /\ pc = "articles"
    /\ idx <= Len(article_links)
    /\ idx' = idx + 1
    /\ log' = Append(log, Entry("article", article_links[idx], FALSE))
    /\ UNCHANGED <<web, max_pages, pc, current_url, page_num, all_data,
                   page_html, article_links, csv_rows, csv_error>>
    /\ UNCHANGED funVars

\* lines 323-329: the article loop is over, the next page is looked up
FindNextPage ==
    /\ pc = "articles"
    /\ idx > Len(article_links)
    /\ current_url' = find_next_page_url(page_html.listing, current_url)
    /\ pc' = "loop"
    /\ log' = Append(log, Entry("next", current_url, TRUE))
    /\ UNCHANGED <<web, max_pages, page_num, all_data, page_html,
                   article_links, idx, csv_rows, csv_error>>
    /\ UNCHANGED funVars

\* a leading part of a token: some of its characters, not all of them
CutTok(t) == [t EXCEPT !.form = "cut"]

\* the leading parts of a written text: whole tokens, then possibly the
\* blank before the next token or a leading part of that token ("Z" has
\* no leading part but itself)
PartsOfText(v) ==
    {SubSeq(v, 1, j) : j \in 0..Len(v)}
        \cup {Append(SubSeq(v, 1, j - 1), CutTok(v[j])) :
                j \in {i \in 1..Len(v) : v[i].form # "zed"}}
        \cup {Append(SubSeq(v, 1, j - 1), WS) :
                j \in {i \in 2..Len(v) : ~v[i].glued}}

\* the leading parts of a written URL; only the scheme is an element of
\* more than one character
PartsOfUrl(u) ==
    {SubSeq(u, 1, j) : j \in 0..Len(u)}
        \cup {Append(SubSeq(u, 1, j - 1), "cut") :
                j \in {i \in 1..Len(u) : u[i] = "https://"}}

\* what a CSV reader finds of a row that was cut while it was written:
\* the fields before the cut, a leading part of the field that was cut,
\* None for the fields after it (a line with nothing on it is no record)
CutRows(row) ==
    {[Title |-> t, Date |-> NoneText, Description |-> NoneText,
      Link |-> None] : t \in PartsOfText(row.Title) \ {<<>>}}
    \cup {[Title |-> row.Title, Date |-> d, Description |-> NoneText,
           Link |-> None] : d \in PartsOfText(row.Date)}
    \cup {[Title |-> row.Title, Date |-> row.Date, Description |-> d,
           Link |-> None] : d \in PartsOfText(row.Description)}
    \cup {[Title |-> row.Title, Date |-> row.Date,
           Description |-> row.Description, Link |-> l] :
                l \in PartsOfUrl(row.Link)}

\* lines 339-346, 357-358: open, a write or the closing flush raises; the
\* file is buffered, so it ends after k whole rows or inside the row after
\* them; the error is reported and the function returns
SaveCsvFail ==
    /\ pc = "save"
    /\ \E k \in 0..Len(all_data) :
        \/ csv_rows' = SubSeq(all_data, 1, k)
        \/ /\ k < Len(all_data)
           /\ \E r \in CutRows(all_data[k + 1]) :
                csv_rows' = Append(SubSeq(all_data, 1, k), r)
    /\ csv_error' = TRUE
    /\ pc' = "done"
    /\ UNCHANGED <<web, max_pages, current_url, page_num, all_data, page_html,
                   article_links, idx, log>>
    /\ UNCHANGED funVars

\* lines 335-346: the rows are written to OUTPUT_FILE
SaveCsv ==
    /\ pc = "save"
    /\ csv_rows' = all_data
    /\ csv_error' = FALSE
    /\ pc' = "done"
    /\ UNCHANGED <<web, max_pages, current_url, page_num, all_data, page_html,
                   article_links, idx, log>>
    /\ UNCHANGED funVars

MaxPagesChoices == {UNBOUNDED} \cup (1..MaxCeiling)

FunIdle == arg = <<>> /\ ret = <<>> /\ fpc = "idle"

Init ==
    /\ web \in Sites
    /\ max_pages \in MaxPagesChoices
    /\ pc = "loop"
    /\ current_url = BASE_URL
    /\ page_num = 0
    /\ all_data = <<>>
    /\ page_html = Page(FALSE, <<>>, <<>>)
    /\ article_links = <<>>
    /\ idx = 0
    /\ csv_rows = <<>>
    /\ csv_error = FALSE
    /\ log = <<>>
    /\ FunIdle

Next ==
    \/ FetchListingOk
    \/ FetchListingFail
    \/ LoopExit
    \/ FetchArticleOk
    \/ FetchArticleFail
    \/ FindNextPage
    \/ SaveCsv
    \/ SaveCsvFail

Spec == Init /\ [][Next]_vars

\* the interpreter runs the function to its end: every enabled step is taken
FairSpec == Spec /\ WF_vars(Next)


\* ------------------------------------------------------------------------
\* Properties of the crawl loop
\* ------------------------------------------------------------------------
IsListing(e) == e.kind = "listing"

\* number of listing pages fetched so far
ListingFetches == Len(SelectSeq(log, IsListing))

\* a fetch of a listing page has failed
ListingFailed == \E i \in 1..Len(log) : log[i].kind = "listing" /\ ~log[i].ok

\* index of the last listing fetch before position i of the log, 0 if none
LastListingBefore(l, i) ==
    IF \E p \in 1..(i - 1) : l[p].kind = "listing"
    THEN CHOOSE p \in 1..(i - 1) :
            /\ l[p].kind = "listing"
            /\ \A q \in (p + 1)..(i - 1) : l[q].kind # "listing"
    ELSE 0

\* the links discovered on the listing page fetched at position p
LinksAt(l, p) == extract_links(web[l[p].url].listing, l[p].url)

\* the records of the successfully fetched articles, in the order of the log
RECURSIVE RecordsOf(_)
RecordsOf(l) ==
    IF l = <<>> THEN <<>>
    ELSE (IF Head(l).kind = "article" /\ Head(l).ok
          THEN <<extract_article_data(web[Head(l).url].article, Head(l).url)>>
          ELSE <<>>) \o RecordsOf(Tail(l))

\* C1: no listing URL is fetched twice in a run (a next-page URL that was
\* already visited ends the run instead of being fetched again)
C1_NoListingFetchedTwice ==
    \A i, j \in 1..Len(log) :
        (i < j /\ log[i].kind = "listing" /\ log[j].kind = "listing")
            => log[i].url # log[j].url

\* C2: with a finite ceiling N a run never fetches more than N listing
\* pages and reaches Done, whatever the next links and fetch outcomes are
C2_FiniteCeilingTerminates ==
    (max_pages # UNBOUNDED) =>
        ([](ListingFetches <= max_pages) /\ <>(pc = "done"))

\* ceiling 2, page 2 links back to page 1: the run is over after page 2
C2_Witness ==
    /\ web = SiteCycle
    /\ max_pages = 2
    /\ pc = "done"
    /\ ListingFetches = 2
    /\ log[Len(log)] = Entry("next", L2, TRUE)
    /\ current_url = BASE_URL

\* C3 as stated: once the fetch of a listing page has failed nothing more
\* is fetched, the records collected so far stay as they are, and they are
\* the rows written at the end of the run
C3_ListingFailureHalts ==
    [][ /\ ListingFailed => log' = log
        /\ ListingFailed' => all_data' = all_data
        /\ (ListingFailed' /\ pc' = "done") => csv_rows' = all_data ]_vars

\* C3, amended: once the fetch of a listing page has failed nothing more is
\* fetched and the records collected so far stay as they are; at the end of
\* the run the rows written are all of them when the write succeeds, and
\* when the write itself fails the first few of them, in order, the last
\* one possibly cut short
C3_ListingFailureHaltsThenWrites ==
    [][ /\ ListingFailed => log' = log
        /\ ListingFailed' => all_data' = all_data
        /\ (ListingFailed' /\ pc' = "done") =>
                /\ ~csv_error' => csv_rows' = all_data
                /\ Len(csv_rows') <= Len(all_data)
                /\ \A i \in 1..Len(csv_rows') :
                        \/ csv_rows'[i] = all_data[i]
                        \/ /\ i = Len(csv_rows')
                           /\ csv_rows'[i] \in CutRows(all_data[i]) ]_vars

\* the second listing page failed after records were collected on the
\* first, and the write succeeded
C3_Witness ==
    /\ pc = "done"
    /\ ListingFailed
    /\ Len(all_data) >= 1
    /\ ~csv_error
    /\ csv_rows = all_data

\* the step is a failed article fetch
ArticleFailStep ==
    /\ Len(log') = Len(log) + 1
    /\ log'[Len(log')].kind = "article"
    /\ ~log'[Len(log')].ok

\* the URLs of the article fetches since the last listing fetch
ArticlesSinceListing ==
    LET p == LastListingBefore(log, Len(log) + 1)
    IN [i \in 1..(Len(log) - p) |-> log[p + i].url]

\* C4: a failed article fetch appends no record and leaves the collected
\* records alone, the article loop goes on with the next link, and the page
\* is left only by the next-page lookup, after every link of the page was
\* fetched
C4_ArticleFailureSkips ==
    [][ /\ ArticleFailStep =>
            /\ all_data' = all_data
            /\ pc' = "articles"
            /\ idx' = idx + 1
            /\ article_links' = article_links
        /\ (pc = "articles" /\ pc' # "articles") =>
            /\ log' = Append(log, Entry("next", current_url, TRUE))
            /\ ArticlesSinceListing = article_links ]_vars

\* the second of three articles failed, the third was fetched all the same
C4_Witness ==
    /\ web = SiteThree
    /\ Len(log) = 5
    /\ log[2] = Entry("article", A1, TRUE)
    /\ log[3] = Entry("article", A2, FALSE)
    /\ log[4] = Entry("article", A3, TRUE)
    /\ log[5] = Entry("next", BASE_URL, TRUE)
    /\ Len(all_data) = 2

\* C5: fetching is sequential and in discovery order: the article fetches
\* that follow a listing fetch are the page's links in the order
\* extract_links returned them, a next listing page is fetched only after
\* all of them, and all_data is the sequence of the records of the
\* successful article fetches in that order
C5_DiscoveryOrder ==
    /\ all_data = RecordsOf(log)
    /\ \A i \in 1..Len(log) :
        LET p == LastListingBefore(log, i)
        IN /\ log[i].kind = "article" =>
                /\ p # 0
                /\ log[p].ok
                /\ \A q \in (p + 1)..(i - 1) : log[q].kind = "article"
                /\ i - p <= Len(LinksAt(log, p))
                /\ log[i].url = LinksAt(log, p)[i - p]
           /\ log[i].kind = "next" =>
                /\ p # 0
                /\ log[i].url = log[p].url
                /\ i - p - 1 = Len(LinksAt(log, p))
           /\ (log[i].kind = "listing" /\ i > 1) => log[i - 1].kind = "next"

\* three article containers, all fetched: three records in document order
C5_Witness ==
    /\ web = SiteThree
    /\ pc = "done"
    /\ Len(all_data) = 3
    /\ all_data[1].Link = A1
    /\ all_data[2].Link = A2
    /\ all_data[3].Link = A3


\* ------------------------------------------------------------------------
\* The pure functions, each applied to the inputs of a bounded set
\* ------------------------------------------------------------------------
SeqsUpTo(S, n) == UNION {[1..k -> S] : k \in 0..n}

CrawlIdle ==
    /\ web = <<>>
    /\ max_pages = 0
    /\ pc = "idle"
    /\ current_url = None
    /\ page_num = 0
    /\ all_data = <<>>
    /\ page_html = NoPage
    /\ article_links = <<>>
    /\ idx = 0
    /\ csv_rows = <<>>
    /\ csv_error = FALSE
    /\ log = <<>>

\* --- extract_links ---
LinkHrefs == {<<>>, L1NoSlash, A1, SubA, ExtA}

LinkAnchors ==
    {Anchor(FALSE, <<>>, <<>>, <<>>)}
        \cup {Anchor(TRUE, h, <<>>, <<>>) : h \in LinkHrefs}

LinkBlocks ==
    {Block(t, as) : t \in {"article", "h2", "div"},
                    as \in SeqsUpTo(LinkAnchors, MaxAnchors)}

InitLinks ==
    /\ CrawlIdle
    /\ arg \in [html : SeqsUpTo(LinkBlocks, MaxBlocks),
                base_url : {BASE_URL, L1NoSlash}]
    /\ ret = <<>>
    /\ fpc = "call"

CallExtractLinks ==
    /\ fpc = "call"
    /\ ret' = extract_links(arg.html, arg.base_url)
    /\ fpc' = "ret"
    /\ UNCHANGED arg
    /\ UNCHANGED crawlVars

NextLinks == CallExtractLinks

SpecLinks == InitLinks /\ [][NextLinks]_vars

\* C6: extract_links returns no URL twice and no URL that, trailing slashes
\* stripped, equals the base URL with trailing slashes stripped, whichever
\* strategy contributed it
C6_NoDuplicateNoSelfLink ==
    fpc = "ret" =>
        /\ \A i, j \in 1..Len(ret) : i # j => ret[i] # ret[j]
        /\ \A i \in 1..Len(ret) : RStripSlash(ret[i]) # RStripSlash(arg.base_url)

\* --- find_next_page_url ---
NavAnchors ==
    {Anchor(hh[1], hh[2], c, t) :
        hh \in {<<FALSE, <<>>>>, <<TRUE, <<>>>>, <<TRUE, L2>>, <<TRUE, L3>>},
        c \in {<<>>, ClsNext},
        t \in {TxtTwo, TxtNext, TxtArrow}}

InitNext ==
    /\ CrawlIdle
    /\ arg \in [html : {<<Block("div", as)>> : as \in SeqsUpTo(NavAnchors, MaxNavAnchors)},
                cur : {BASE_URL}]
    /\ ret = <<>>
    /\ fpc = "call"

CallFindNextPage ==
    /\ fpc = "call"
    /\ ret' = find_next_page_url(arg.html, arg.cur)
    /\ fpc' = "ret"
    /\ UNCHANGED arg
    /\ UNCHANGED crawlVars

NextNext == CallFindNextPage

SpecNext == InitNext /\ [][NextNext]_vars

\* the anchors of the page given to find_next_page_url
NavAs == find_all_a(arg.html)

\* an anchor with a link target that a "next" heuristic matches
NavMatches(a) == HrefTruthy(a) /\ (a.cls \in NextClasses \/ TextSaysNext(a))

\* C9 as stated: the result is absent exactly when no anchor with a link
\* target has a next class name or a next text; otherwise it is the target
\* of a matching anchor, of one matching by class name if there is one
C9_AbsentExactlyWhenNoMatch ==
    fpc = "ret" =>
        /\ (ret = None) <=> ~(\E i \in 1..Len(NavAs) : NavMatches(NavAs[i]))
        /\ ret # None =>
            \E i \in 1..Len(NavAs) :
                /\ NavMatches(NavAs[i])
                /\ ret = urljoin(arg.cur, NavAs[i].href)
        /\ (\E i \in 1..Len(NavAs) :
                HrefTruthy(NavAs[i]) /\ NavAs[i].cls \in NextClasses) =>
            \E i \in 1..Len(NavAs) :
                /\ HrefTruthy(NavAs[i])
                /\ NavAs[i].cls \in NextClasses
                /\ ret = urljoin(arg.cur, NavAs[i].href)

\* C9 amended: only the first anchor with a next class name is looked at;
\* if it has a link target the result is that target; otherwise the result
\* is the target of the first anchor that has a link target and a next
\* text, and absent when there is none; so the result is absent whenever no
\* anchor matches, and is never the target of an unrelated link
C9_FirstClassAnchorThenText ==
    fpc = "ret" =>
        LET ByClass == {i \in 1..Len(NavAs) : NavAs[i].cls \in NextClasses}
            ByText == {i \in 1..Len(NavAs) :
                          HrefTruthy(NavAs[i]) /\ TextSaysNext(NavAs[i])}
            Min(S) == CHOOSE i \in S : \A j \in S : i <= j
        IN /\ (ByClass # {} /\ HrefTruthy(NavAs[Min(ByClass)])) =>
                ret = urljoin(arg.cur, NavAs[Min(ByClass)].href)
           /\ (~(ByClass # {} /\ HrefTruthy(NavAs[Min(ByClass)])) /\ ByText # {}) =>
                ret = urljoin(arg.cur, NavAs[Min(ByText)].href)
           /\ (~(ByClass # {} /\ HrefTruthy(NavAs[Min(ByClass)])) /\ ByText = {}) =>
                ret = None
           /\ ~(\E i \in 1..Len(NavAs) : NavMatches(NavAs[i])) => ret = None
           /\ ret # None =>
                \E i \in 1..Len(NavAs) :
                    NavMatches(NavAs[i]) /\ ret = urljoin(arg.cur, NavAs[i].href)

\* the first next-class anchor has no target, a later one has, and the
\* result is absent
C9_Witness ==
    /\ fpc = "ret"
    /\ Len(NavAs) = 2
    /\ NavAs[1].cls = ClsNext /\ ~NavAs[1].has_href
    /\ NavAs[2].cls = ClsNext /\ NavAs[2].href = L2 /\ NavAs[2].text = TxtTwo
    /\ ret = None

\* --- parse_date_string ---
\* day/month/year combinations: a leap day, the same day in a common year,
\* February 30, the last day of a 30-day month and the day after it
NamedDates == {<<2024, 2, 29>>, <<2023, 2, 29>>, <<2024, 2, 30>>,
               <<2024, 4, 30>>, <<2024, 4, 31>>}

\* in a numeric notation the month can be out of range as well
NumericDates == NamedDates \cup {<<2024, 13, 30>>}

DateTokens ==
    {WS, Word, ArWord, Zed}
        \cup {Tok(f, t[1], t[2], t[3]) :
                f \in {"Bdy", "bdy", "dBy", "dby", "ar"}, t \in NamedDates}
        \cup {Tok(f, t[1], t[2], t[3]) :
                f \in {"iso", "isoz", "slash", "dash"}, t \in NumericDates}
        \cup {Tok("wdy", 2024, 0, d) : d \in {29, 30}}

\* the text of the tokens toks in which the i-th token, i > 1, follows the
\* token before it directly when g[i] holds
GlueText(toks, g) ==
    [i \in 1..Len(toks) |->
        IF i > 1 /\ g[i] THEN Glued(toks[i]) ELSE toks[i]]

\* what may follow the tokens of a text: nothing, or the letter "Z" after
\* a whitespace character or directly
ZTails == {<<>>, <<Zed>>, <<Glued(Zed)>>}

InitDate ==
    /\ CrawlIdle
    /\ \/ arg = NoneText
       \/ \E toks \in SeqsUpTo(DateTokens, MaxTokens),
             g \in [1..MaxTokens -> BOOLEAN], tail \in ZTails :
                arg = GlueText(toks, g) \o tail
    /\ ret = <<>>
    /\ fpc = "call"

CallParseDate ==
    /\ fpc = "call"
    /\ ret' = parse_date_string(arg)
    /\ fpc' = "ret"
    /\ UNCHANGED arg
    /\ UNCHANGED crawlVars

NextDate == CallParseDate

SpecDate == InitDate /\ [][NextDate]_vars

\* the token is a date phrase that names a real calendar date
RealPhrase(t) == t.form \in Forms \ {"wdy"} /\ IsRealDate(t.y, t.m, t.d)

\* C8: the call returns (no exception leaves it), and the result is absent
\* or a real calendar date that the text names;
\* a text naming no real calendar date resolves to absent (February 30 is
\* not corrected to another day); a strategy that meets an impossible
\* day/month/year fails and the next strategy is tried
C8_AbsentOrRealDate ==
    fpc = "ret" =>
        /\ ret # <<Raised>>
        /\ arg \in {NoneText, <<>>} => ret = NoneText
        /\ ret = NoneText \/
            /\ Len(ret) = 1
            /\ ret[1].form = "iso"
            /\ IsRealDate(ret[1].y, ret[1].m, ret[1].d)
            /\ \E i \in 1..Len(arg) :
                /\ RealPhrase(arg[i])
                /\ <<arg[i].y, arg[i].m, arg[i].d>> = <<ret[1].y, ret[1].m, ret[1].d>>
        /\ (\A i \in 1..Len(arg) : ~RealPhrase(arg[i])) => ret = NoneText
        /\ arg = <<Tok("Bdy", 2024, 2, 30)>> => ret = NoneText
        /\ \A i, j \in 1..Len(arg) :
            (/\ arg[i].form = "ar" /\ ~RealPhrase(arg[i])
             /\ \A k \in 1..(i - 1) : arg[k].form # "ar"
             /\ arg[j].form \in {"Bdy", "bdy"} /\ RealPhrase(arg[j])
             /\ \A k \in 1..(j - 1) : arg[k].form \notin {"Bdy", "bdy", "wdy"}
             /\ ~GluedAfterLetter(arg, j)
             /\ Len(Strip(arg)) > 1)
                => ret = strftime(arg[j])

\* the Arabic strategy met February 30 and the Latin fallback resolved
C8_Witness ==
    /\ fpc = "ret"
    /\ arg = <<Tok("ar", 2024, 2, 30), Tok("Bdy", 2024, 4, 30)>>
    /\ ret = <<Tok("iso", 2024, 4, 30)>>

\* --- extract_event_date ---
TxtIso == <<Tok("iso", 2024, 5, 1)>>
TxtLatin == <<Tok("Bdy", 2024, 4, 30)>>
TxtArabic == <<Tok("ar", 2024, 2, 29)>>
TxtFeb30 == <<Tok("Bdy", 2024, 2, 30)>>
TxtNoMonth == <<Tok("wdy", 2024, 0, 30)>>
TxtWord == <<Word>>
TxtArWord == <<ArWord>>

\* elements followed by whitespace, and elements that the next element
\* follows directly
EventNodes ==
    {TimeNode(FALSE, <<>>, TxtLatin), TimeNode(FALSE, <<>>, TxtWord),
     TimeNode(TRUE, TxtIso, TxtLatin), TimeNode(TRUE, TxtFeb30, TxtLatin)}
    \cup {MetaNode("property", "date", TRUE, TxtArabic),
          MetaNode("property", "date", TRUE, TxtFeb30),
          MetaNode("name", "pubdate", TRUE, TxtArabic),
          MetaNode("name", "author", TRUE, TxtArabic)}
    \cup {Elem("div", c[1], c[2], t) :
        c \in {<<ClsDate, IdMain>>, <<ClsBody, IdTime>>, <<ClsBody, IdMain>>},
        t \in {TxtIso, TxtLatin, TxtArabic, TxtNoMonth}}
    \cup {Elem("div", ClsBody, IdMain, TxtWord), Para(ClsDate, TxtIso)}
    \cup {Adjacent(TimeNode(FALSE, <<>>, TxtWord)),
          Adjacent(TimeNode(FALSE, <<>>, TxtArWord)),
          Adjacent(Elem("div", ClsBody, IdMain, TxtWord)),
          Adjacent(Elem("div", ClsBody, IdMain, TxtLatin))}

InitEvent ==
    /\ CrawlIdle
    /\ arg \in SeqsUpTo(EventNodes, MaxNodes)
    /\ ret = <<>>
    /\ fpc = "call"

CallExtractEventDate ==
    /\ fpc = "call"
    /\ ret' = extract_event_date(arg)
    /\ fpc' = "ret"
    /\ UNCHANGED arg
    /\ UNCHANGED crawlVars

NextEvent == CallExtractEventDate

SpecEvent == InitEvent /\ [][NextEvent]_vars

\* the candidate texts of the article page, in the precedence order of the
\* steps: attribute of the time element, its text, content of the date
\* metadata tags, texts of the date-suggesting elements, Latin pattern in
\* the page text, Arabic pattern in the page text
TimeCandidates(soup) ==
    LET T == {i \in 1..Len(soup) : soup[i].tag = "time"}
        k == CHOOSE i \in T : \A j \in T : i <= j
    IN IF T = {} THEN <<>>
       ELSE (IF ValTruthy(soup[k]) THEN <<soup[k].val>> ELSE <<>>)
                \o <<clean_text(soup[k].text)>>

RECURSIVE MetaCandidates(_, _)
MetaCandidates(soup, i) ==
    IF i > Len(meta_names) THEN <<>>
    ELSE LET k == FindMeta(soup, meta_names[i])
         IN (IF k # 0 /\ ValTruthy(soup[k]) THEN <<soup[k].val>> ELSE <<>>)
                \o MetaCandidates(soup, i + 1)

\* the date-suggesting elements: the class or the id matches the pattern
\* (for a "p", also the class of the element that contains it)
ClassCandidates(soup) ==
    LET Suggests(n) == \/ SuggestsDate(n.cls)
                       \/ SuggestsDate(n.id)
                       \/ SuggestsDate(n.container)
        els == SelectSeq(soup, Suggests)
    IN [i \in 1..Len(els) |-> clean_text(els[i].text)]

PatternCandidates(soup) ==
    LET body == clean_text(get_text(soup))
        Lat == {i \in 1..Len(body) : body[i].form \in {"Bdy", "bdy", "wdy"}}
        Ara == {i \in 1..Len(body) : body[i].form = "ar"}
        l == CHOOSE i \in Lat : \A j \in Lat : i <= j
        a == CHOOSE i \in Ara : \A j \in Ara : i <= j
    IN (IF Lat # {} THEN <<LatinGroup(body, l)>> ELSE <<>>)
            \o (IF Ara # {} THEN <<<<Unglued(body[a])>>>> ELSE <<>>)

Candidates(soup) ==
    TimeCandidates(soup) \o MetaCandidates(soup, 1)
        \o ClassCandidates(soup) \o PatternCandidates(soup)

\* C7: the extracted date is the date of the first candidate, in the
\* precedence order of the steps, that the date resolver resolves, and
\* absent when it resolves none; a time element's resolvable datetime
\* attribute wins whatever the element's text is
C7_FirstResolvingStepWins ==
    fpc = "ret" =>
        LET cs == Candidates(arg)
            R == {i \in 1..Len(cs) : parse_date_string(cs[i]) # NoneText}
        IN /\ R = {} => ret = NoneText
           /\ R # {} =>
                ret = parse_date_string(cs[CHOOSE i \in R : \A j \in R : i <= j])
           /\ \A k \in 1..Len(arg) :
                (/\ arg[k].tag = "time"
                 /\ \A j \in 1..(k - 1) : arg[j].tag # "time"
                 /\ arg[k].val = TxtIso)
                    => ret = TxtIso

\* C10: when no earlier step resolves a date and no element with a date
\* class resolves one, an element whose id (not its class) matches the
\* date pattern and whose text resolves gives the extracted date
C10_IdSuggestsDate ==
    fpc = "ret" =>
        LET ById == {i \in 1..Len(arg) :
                        /\ SuggestsDate(arg[i].id)
                        /\ ~SuggestsDate(arg[i].cls)
                        /\ parse_date_string(clean_text(arg[i].text)) # NoneText}
            k == CHOOSE i \in ById : \A j \in ById : i <= j
        IN (/\ TimeStep(arg) = NoneText
            /\ MetaStep(arg, 1) = NoneText
            /\ ClassStep(arg) = NoneText
            /\ ById # {})
                => ret = parse_date_string(clean_text(arg[k].text))


====
